---- MODULE Spec2Model ----
(***************************************************************************)
(* Model of the Signal -> CoT message bridge of src/src/tak_bot/__main__.py *)
(* : the reconnecting line client (receive_from_tcp_socket), the envelope   *)
(* router (handle_socket_message), the conversion handler                   *)
(* (_cot_message_handler) with CoordinateMessage parsing and validation,    *)
(* the output queue drained by the external transmission worker, the       *)
(* process supervisor (cleaning_up_proc) and the task group of main.        *)
(*                                                                          *)
(* Text is modelled as TLA+ strings read character by character.  A float   *)
(* is modelled as its value in tenths (an integer), or NaN; the texts of    *)
(* the model carry at most one fractional digit.                            *)
(***************************************************************************)
EXTENDS Integers, Sequences, FiniteSets, TLC

(***************************************************************************)
(* Strings                                                                  *)
(***************************************************************************)

\* The i-th character of s, as a one-character string.
Ch(s, i) == SubSeq(s, i, i)

\* str.isspace for one character (split() and strip() without arguments).
IsSpace(c) == c \in {" ", "\t"}

Digits == <<"0", "1", "2", "3", "4", "5", "6", "7", "8", "9">>

IsDigit(c) == \E d \in 1..10 : Digits[d] = c

DigitVal(c) == (CHOOSE d \in 1..10 : Digits[d] = c) - 1

UpperCase == <<"A", "B", "C", "D", "E", "F", "G", "H", "I", "J", "K", "L", "M",
               "N", "O", "P", "Q", "R", "S", "T", "U", "V", "W", "X", "Y", "Z">>

LowerCase == <<"a", "b", "c", "d", "e", "f", "g", "h", "i", "j", "k", "l", "m",
               "n", "o", "p", "q", "r", "s", "t", "u", "v", "w", "x", "y", "z">>

LowerCh(c) ==
    IF \E k \in 1..26 : UpperCase[k] = c
    THEN LowerCase[CHOOSE k \in 1..26 : UpperCase[k] = c]
    ELSE c

\* str.lower()
RECURSIVE Lower(_)
Lower(s) == IF s = "" THEN "" ELSE LowerCh(Ch(s, 1)) \o Lower(Tail(s))

\* str.lstrip() / str.rstrip() / str.strip()
RECURSIVE LStrip(_)
LStrip(s) ==
    IF s # "" /\ IsSpace(Ch(s, 1)) THEN LStrip(Tail(s)) ELSE s

RECURSIVE RStrip(_)
RStrip(s) ==
    IF s # "" /\ IsSpace(Ch(s, Len(s)))
    THEN RStrip(SubSeq(s, 1, Len(s) - 1))
    ELSE s

Strip(s) == LStrip(RStrip(s))

\* Length of the leading run of non-space characters of s.
RECURSIVE TokenLen(_)
TokenLen(s) ==
    IF s = "" \/ IsSpace(Ch(s, 1)) THEN 0 ELSE 1 + TokenLen(Tail(s))

\* str.split(maxsplit=n): runs of whitespace separate the words; after n splits
\* the remainder, leading whitespace skipped, is the last word.
RECURSIVE SplitWords(_, _)
SplitWords(t, maxsplit) ==
    IF t = "" THEN <<>>
    ELSE IF maxsplit = 0 THEN <<t>>
    ELSE <<SubSeq(t, 1, TokenLen(t))>>
         \o SplitWords(LStrip(SubSeq(t, TokenLen(t) + 1, Len(t))), maxsplit - 1)

Split(s, maxsplit) == SplitWords(LStrip(s), maxsplit)

\* The value of a string of digits.
RECURSIVE DigitsVal(_)
DigitsVal(s) ==
    IF s = "" THEN 0
    ELSE 10 * DigitsVal(SubSeq(s, 1, Len(s) - 1)) + DigitVal(Ch(s, Len(s)))

AllDigits(s) == \A i \in 1..Len(s) : IsDigit(Ch(s, i))

\* Position of the first "." of s, 0 when there is none.
RECURSIVE PointAt(_)
PointAt(s) ==
    IF s = "" THEN 0
    ELSE IF Ch(s, 1) = "." THEN 1
    ELSE IF PointAt(Tail(s)) = 0 THEN 0
    ELSE PointAt(Tail(s)) + 1

\* An unsigned decimal given as its integer part ip and fractional part fp.
Decimal(ip, fp) ==
    IF AllDigits(ip) /\ AllDigits(fp) /\ (ip # "" \/ fp # "")
    THEN [ok |-> TRUE, nan |-> FALSE,
          v |-> 10 * DigitsVal(ip) + (IF fp = "" THEN 0 ELSE DigitVal(Ch(fp, 1)))]
    ELSE [ok |-> FALSE, nan |-> FALSE, v |-> 0]

\* s cut at its point at position p (0: no point).
CutAt(s, p) ==
    IF p = 0 THEN Decimal(s, "")
    ELSE Decimal(SubSeq(s, 1, p - 1), SubSeq(s, p + 1, Len(s)))

\* float(tok) for an unsigned decimal: digits with at most one point, at least
\* one digit.  The value is in tenths; fractional digits after the first are
\* outside the modelled precision and dropped.
Unsigned(s) == CutAt(s, PointAt(s))

Negate(u) == [u EXCEPT !.v = 0 - u.v]

\* float(tok): ok = FALSE stands for ValueError.  "nan" parses to NaN.
ParseFloat(tok) ==
    IF Lower(tok) = "nan" THEN [ok |-> TRUE, nan |-> TRUE, v |-> 0]
    ELSE IF tok # "" /\ Ch(tok, 1) = "-" THEN Negate(Unsigned(Tail(tok)))
    ELSE IF tok # "" /\ Ch(tok, 1) = "+" THEN Unsigned(Tail(tok))
    ELSE Unsigned(tok)

(***************************************************************************)
(* Category table and marker event (CoordinateMessage)                      *)
(***************************************************************************)

\* Affiliation enum: the letter each member stands for.
Affiliation == [HOSTILE |-> "h", FRIENDLY |-> "f", NEUTRAL |-> "n", UNKNOWN |-> "u"]

COT_TYPE_MAP ==
    [tank |-> "G-U-C-F-M", apc |-> "G-U-C-F-A", infantry |-> "G-U-C-I",
     artillery |-> "G-U-C-F-D", mlrs |-> "G-U-C-F-D-M", sam |-> "G-U-W-M-S",
     radar |-> "G-U-S-R", truck |-> "G-U-S-T", helicopter |-> "A-M-H",
     drone |-> "A-M-F-Q"]

\* a <= b on floats: every comparison with NaN is false.
LeF(a, b) == ~a.nan /\ ~b.nan /\ a.v <= b.v

Float(tenths) == [nan |-> FALSE, v |-> tenths]

\* __post_init__ without the longitude check.
PostInit_NoLongitudeCheck(lat, lon, description) ==
    IF ~(LeF(Float(-900), lat) /\ LeF(lat, Float(900))) THEN "Invalid latitude"
    ELSE IF description = "" THEN "Label cannot be empty"
    ELSE ""

\* CoordinateMessage.__post_init__: "" when the fields are accepted, else the
\* ValueError raised.
PostInit(lat, lon, description) ==
    IF ~(LeF(Float(-900), lat) /\ LeF(lat, Float(900))) THEN "Invalid latitude"
    ELSE IF ~(LeF(Float(-1800), lon) /\ LeF(lon, Float(1800))) THEN "Invalid longitude"
    ELSE IF description = "" THEN "Label cannot be empty"
    ELSE ""

NoMessage ==
    [lat |-> Float(0), lon |-> Float(0), description |-> "", affiliation |-> "u"]

\* cls(lat=lat, lon=lon, description=...): the constructor with the default
\* affiliation; __post_init__ validates.
Construct(lat, lon, description) ==
    [err |-> PostInit(lat, lon, description), built |-> TRUE,
     msg |-> [lat |-> lat, lon |-> lon, description |-> description,
              affiliation |-> Affiliation.UNKNOWN]]

\* from_string after the two float() calls.
FromFloats(lat, lon, description) ==
    IF ~lat.ok \/ ~lon.ok
    THEN [err |-> "Invalid coordinates", built |-> FALSE, msg |-> NoMessage]
    ELSE Construct([nan |-> lat.nan, v |-> lat.v], [nan |-> lon.nan, v |-> lon.v],
                   description)

\* from_string after the split.
FromParts(parts) ==
    IF Len(parts) # 3
    THEN [err |-> "Expected 'lat lon label'", built |-> FALSE, msg |-> NoMessage]
    ELSE FromFloats(ParseFloat(parts[1]), ParseFloat(parts[2]), parts[3])

\* from_string splitting at every run of whitespace.
FromString_NoMaxsplit(text) == FromParts(Split(Strip(text), 9))

\* CoordinateMessage.from_string: err = "" and the event on success; otherwise
\* err names the ValueError.  built tells whether the constructor was called
\* (an event_id is drawn before __post_init__ validates).
FromString(text) == FromParts(Split(Strip(text), 2))

\* CoordinateMessage.cot_type
CategoryCode(key) == IF key \in DOMAIN COT_TYPE_MAP THEN COT_TYPE_MAP[key] ELSE "G-U"

\* cot_type looking the label up as it is spelt.
CotType_CaseSensitive(msg) ==
    "a-" \o msg.affiliation \o "-" \o CategoryCode(msg.description)

CotType(msg) == "a-" \o msg.affiliation \o "-" \o CategoryCode(Lower(msg.description))

\* CoordinateMessage.gen_cot with its default arguments: the encoded event, or
\* nothing when the encoding library produces none (encOk = FALSE).  The
\* result is a sequence of zero or one item.
GenCot(msg, uid, encOk) ==
    IF encOk
    THEN <<[uid |-> uid, type |-> CotType(msg), lat |-> msg.lat.v, lon |-> msg.lon.v,
            hae |-> 0, ce |-> 50, le |-> 9999999, stale |-> 120]>>
    ELSE <<>>

(***************************************************************************)
(* JSON values of the daemon's lines                                        *)
(***************************************************************************)

JNull == [t |-> "null"]
JNum(n) == [t |-> "num", n |-> n]
JStr(s) == [t |-> "str", s |-> s]
JList(e) == [t |-> "list", e |-> e]
JObj(f) == [t |-> "obj", f |-> f]
EmptyObj == JObj(<<>>)

\* bool(v)
Truthy(v) ==
    CASE v.t = "null" -> FALSE
      [] v.t = "num" -> v.n # 0
      [] v.t = "str" -> v.s # ""
      [] v.t = "list" -> v.e # <<>>
      [] v.t = "obj" -> DOMAIN v.f # {}

\* d.get(k, default) on a dict d
DictGet(d, k, default) == IF k \in DOMAIN d.f THEN d.f[k] ELSE default

\* k in v: key test on a dict, substring test on a str, membership on a list.
\* Only called where it does not raise (see CanContain).
Contains(v, k) ==
    CASE v.t = "obj" -> k \in DOMAIN v.f
      [] v.t = "str" -> \E i \in 1..(Len(v.s) - Len(k) + 1) :
                            SubSeq(v.s, i, i + Len(k) - 1) = k
      [] v.t = "list" -> \E i \in 1..Len(v.e) : v.e[i] = JStr(k)
      [] OTHER -> FALSE

\* "k in v" raises TypeError on None and on a number.
CanContain(v) == v.t \in {"obj", "str", "list"}

\* v[:n] raises TypeError unless v is a str or a list.
CanSlice(v) == v.t \in {"str", "list"}

(***************************************************************************)
(* Envelope router and conversion handler                                   *)
(***************************************************************************)

filter_param == "dataMessage"

Raise(e) == [res |-> "raise", exc |-> e, text |-> JNull]
Return == [res |-> "return", exc |-> "", text |-> JNull]
Call(text) == [res |-> "call", exc |-> "", text |-> text]

\* Lines 206-209: the info log slices account and source, then the handler is
\* awaited.
Forward(account, source, text) ==
    IF ~CanSlice(account) \/ ~CanSlice(source) THEN Raise("TypeError")
    ELSE Call(text)

\* Lines 204-211 without the test of text.
WithDataMessage_NoTextCheck(account, source, data_message) ==
    IF data_message.t # "obj" THEN Raise("AttributeError")
    ELSE Forward(account, source, DictGet(data_message, "message", JNull))

\* Lines 204-211: text = data_message.get("message"); if text: ... else: debug log.
WithDataMessage(account, source, data_message) ==
    IF data_message.t # "obj" THEN Raise("AttributeError")
    ELSE IF Truthy(DictGet(data_message, "message", JNull))
    THEN Forward(account, source, DictGet(data_message, "message", JNull))
    ELSE Return

\* source = envelope.get("sourceNumber") or envelope.get("source")
Source(envelope) ==
    IF Truthy(DictGet(envelope, "sourceNumber", JNull))
    THEN DictGet(envelope, "sourceNumber", JNull)
    ELSE DictGet(envelope, "source", JNull)

\* Lines 197-203: the filter, then account, source and data_message.
WithEnvelope(params, envelope) ==
    IF ~CanContain(envelope) THEN Raise("TypeError")
    ELSE IF ~Contains(envelope, filter_param) THEN Return
    ELSE IF envelope.t # "obj" THEN Raise("AttributeError")
    ELSE WithDataMessage(DictGet(params, "account", JNull), Source(envelope),
                         DictGet(envelope, "dataMessage", EmptyObj))

\* Line 196: envelope = params.get("envelope", {})
WithParams(params) ==
    IF params.t # "obj" THEN Raise("AttributeError")
    ELSE WithEnvelope(params, DictGet(params, "envelope", EmptyObj))

\* handle_socket_message up to the call of the handler: "return" when the
\* notification is dropped, "call" with the text the handler is awaited with,
\* "raise" with the exception an attribute access, a membership test or a
\* slice raises.
HandleSocketMessage(message) ==
    IF message.t # "obj" THEN Raise("AttributeError")
    ELSE IF DictGet(message, "method", JNull) # JStr("receive") THEN Return
    ELSE WithParams(DictGet(message, "params", EmptyObj))

\* The handler without its except ValueError clause.
Encode_ValueErrorEscapes(r, uid, encOk) ==
    IF r.err # ""
    THEN [exc |-> "ValueError", items |-> <<>>, built |-> r.built, enc |-> "n/a"]
    ELSE [exc |-> "", items |-> GenCot(r.msg, uid, encOk), built |-> TRUE,
          enc |-> IF encOk THEN "bytes" ELSE "none"]

\* The handler catching the ValueError of from_string's own checks only.
Encode_RangeErrorEscapes(r, uid, encOk) ==
    IF r.err # ""
    THEN [exc |-> IF r.built THEN "ValueError" ELSE "", items |-> <<>>,
          built |-> r.built, enc |-> "n/a"]
    ELSE [exc |-> "", items |-> GenCot(r.msg, uid, encOk), built |-> TRUE,
          enc |-> IF encOk THEN "bytes" ELSE "none"]

\* The handler awaiting queue.put with whatever gen_cot returned.
Encode_NothingRaises(r, uid, encOk) ==
    IF r.err # ""
    THEN [exc |-> "", items |-> <<>>, built |-> r.built, enc |-> "n/a"]
    ELSE [exc |-> IF encOk THEN "" ELSE "TypeError",
          items |-> GenCot(r.msg, uid, encOk), built |-> TRUE,
          enc |-> IF encOk THEN "bytes" ELSE "none"]

\* Lines 123-127 for a parsed text: gen_cot, then queue.put or the warning.
Encode(r, uid, encOk) ==
    IF r.err # ""
    THEN [exc |-> "", items |-> <<>>, built |-> r.built, enc |-> "n/a"]
    ELSE [exc |-> "", items |-> GenCot(r.msg, uid, encOk), built |-> TRUE,
          enc |-> IF encOk THEN "bytes" ELSE "none"]

\* _cot_message_handler up to queue.put: exc is the exception that leaves the
\* handler ("" for none: a ValueError is caught), items the zero or one item it
\* awaits queue.put with, built whether an event was constructed, enc what the
\* encoder returned.
CotMessageHandler(cot_message_raw, uid, encOk) ==
    IF cot_message_raw.t # "str"
    THEN [exc |-> "AttributeError", items |-> <<>>, built |-> FALSE, enc |-> "n/a"]
    ELSE Encode(FromString(cot_message_raw.s), uid, encOk)

(***************************************************************************)
(* The lines the daemon sends                                               *)
(***************************************************************************)

Texts ==
    {"48.5 39.8 tank", " 1 2 Big  Tank ", "-90 180.0 TANK", "1 2", "x 2 tank",
     "91 0 tank", "0 -180.1 apc", "nan 0 drone"}

Receive(params) == JObj([method |-> JStr("receive"), params |-> params])

DataMessage(text) == JObj([message |-> text])

\* A receive notification with account, sourceNumber and a message.
Notification(text) ==
    Receive(JObj([account |-> JStr("+100"),
                  envelope |-> JObj([sourceNumber |-> JStr("+200"),
                                     dataMessage |-> DataMessage(text)])]))

JsonValues ==
    {Notification(JStr(t)) : t \in Texts}
    \cup
    {\* the notification without account and source
     Receive(JObj([envelope |-> JObj([dataMessage |-> DataMessage(JStr("1 2 tank"))])])),
     \* account, no source
     Receive(JObj([account |-> JStr("+100"),
                   envelope |-> JObj([dataMessage |-> DataMessage(JStr("1 2 tank"))])])),
     \* the source under the secondary key
     Receive(JObj([account |-> JStr("+100"),
                   envelope |-> JObj([source |-> JStr("+200"),
                                      dataMessage |-> DataMessage(JStr("3 4 radar"))])])),
     \* other notifications
     JObj([method |-> JStr("subscribe")]),
     EmptyObj,
     Receive(JObj([envelope |-> EmptyObj])),
     JObj([method |-> JStr("receive")]),
     \* no text payload
     Notification(JStr("")),
     Receive(JObj([envelope |-> JObj([dataMessage |-> DataMessage(JStr(""))])])),
     Receive(JObj([account |-> JStr("+100"),
                   envelope |-> JObj([sourceNumber |-> JStr("+200"),
                                      dataMessage |-> EmptyObj])])),
     \* a payload that is not text
     Notification(JNum(5)),
     \* JSON that is not an object, and null members
     JList(<<>>),
     JNull,
     Receive(JNull),
     Receive(JObj([account |-> JStr("+100"), envelope |-> JNull])),
     Receive(JObj([account |-> JStr("+100"),
                   envelope |-> JObj([sourceNumber |-> JStr("+200"),
                                      dataMessage |-> JNull])]))}

Line(kind, val) == [kind |-> kind, val |-> val]

\* kind: "blank" (only whitespace), "badutf8" (bytes that are not UTF-8),
\* "nonjson" (text json.loads rejects), "json" (val is the parsed value).
Lines ==
    {Line("blank", JNull), Line("badutf8", JNull), Line("nonjson", JNull)}
    \cup {Line("json", v) : v \in JsonValues}

(***************************************************************************)
(* The reconnecting line client, the output queue and their environment     *)
(***************************************************************************)

\* Lines the daemon sends in one run of the model.
MaxLines == 3

\* Capacity of the output queue the handler is given: queue.put suspends the
\* handler while the queue holds this many items.
MaxQueue == 2

\* asyncio.sleep(5) of both except clauses
RECONNECT_DELAY == 5

VARIABLES
    pc,         \* where the task running receive_from_tcp_socket is:
                \*   "start"       not yet run
                \*   "connecting"  in await asyncio.open_connection
                \*   "reading"     in await reader.readline
                \*   "putting"     in await queue.put, inside the handler
                \*   "closing"     in await writer.wait_closed, in the finally
                \*   "sleeping"    in await asyncio.sleep, in an except clause
                \*   "cancelled"   left by a CancelledError
                \*   "returned"    returned normally
    conn,       \* the connection: "none", "open", "broken" (lost with an error,
                \* writer not closed yet), "closing" (writer.close() called),
                \* "lost" (writer.close() called on a broken connection)
    pending,    \* what the finally block was entered with and goes on with after
                \* wait_closed: "none" (the break), "error", "cancel"
    cancel,     \* task.cancel() by the orchestration: "no", "requested"
                \* (CancelledError not yet thrown into the task), "delivered"
    delay,      \* time left of the running asyncio.sleep
    waited,     \* time slept in the retry delay since the last failure
    lastFail,   \* the last failure: "none", "refused", "error", "eof"
    nRead,      \* lines received so far
    last,       \* the last line received and what its handling did: the texts the
                \* handler was called with, what the encoder returned ("n/a" when
                \* not called), the items handed to queue.put, the exception raised
    putItem,    \* the item of the suspended queue.put (zero or one)
    queue,      \* the output queue
    consumed,   \* the items the transmission worker has taken, in order
    nextId      \* the event_id the next constructed event draws

\* The orchestration around the client: run_incomming_message_processing with
\* cleaning_up_proc, and main with its task group.
VARIABLES
    sup,        \* where the task running run_incomming_message_processing is:
                \*   "start"      created, not yet run
                \*   "spawning"   in await asyncio.create_subprocess_shell (run)
                \*   "inside"     in the body of the async with: the client runs
                \*   "waiting"    in await process.wait, in the finally
                \*   "cancelled"  ended by a CancelledError
                \*   "failed"     ended by an exception
    proc,       \* the daemon subprocess: "none" (never started), "running",
                \* "exited" (ended on its own), "terminating" (terminate() sent),
                \* "terminated"
    worker,     \* the task running clitool.run(): "running", "failed",
                \* "returned", "cancelled"
    group,      \* the task group of main: "running", "aborting" (it has
                \* cancelled its tasks and awaits them), "done"
    errors,     \* the failures the task group has collected: "spawn"
                \* (create_subprocess_shell raised), "teardown" (the finally of
                \* cleaning_up_proc raised), "worker" (clitool.run() raised)
    outcome,    \* how async with asyncio.TaskGroup() ended: "none" (not yet),
                \* "error" (the group of the collected errors is raised),
                \* "cancelled", "returned"
    extCancel   \* main itself was cancelled from outside

\* A function of CoordinateMessage applied on its own (EventSpec): the function,
\* its input, its result, and whether it has been applied yet.
VARIABLES
    applied

bridge == <<sup, proc, worker, group, errors, outcome, extCancel>>

client == <<pc, conn, pending, cancel, delay, waited, lastFail, nRead, last,
            putItem, queue, consumed, nextId>>

vars == <<pc, conn, pending, cancel, delay, waited, lastFail, nRead, last,
          putItem, queue, consumed, nextId, bridge, applied>>

NoLine == Line("none", JNull)

Last(line, calls, enc, items, exc) ==
    [line |-> line, calls |-> calls, enc |-> enc, items |-> items, exc |-> exc]

Init ==
    /\ pc = "start"
    /\ conn = "none"
    /\ pending = "none"
    /\ cancel = "no"
    /\ delay = 0
    /\ waited = 0
    /\ lastFail = "none"
    /\ nRead = 0
    /\ last = Last(NoLine, <<>>, "n/a", <<>>, "")
    /\ putItem = <<>>
    /\ queue = <<>>
    /\ consumed = <<>>
    /\ nextId = 1

\* The task runs only when no CancelledError is waiting to be thrown into it.
Runs == cancel # "requested"

\* The suspension points of the task.
Suspended == {"connecting", "reading", "putting", "closing", "sleeping"}

\* The first statement of the task: the first pass of the while loop calls
\* asyncio.open_connection.
Start ==
    /\ pc = "start"
    /\ pc' = "connecting"
    /\ UNCHANGED <<bridge, applied>>
    /\ UNCHANGED <<conn, pending, cancel, delay, waited, lastFail, nRead, last,
                   putItem, queue, consumed, nextId>>

\* An except clause that logs and does not sleep.
Sleep_NoDelay(fail) ==
    /\ pc' = "sleeping"
    /\ delay' = 0
    /\ waited' = 0
    /\ lastFail' = fail

\* An except clause: log, then await asyncio.sleep(5).
Sleep(fail) ==
    /\ pc' = "sleeping"
    /\ delay' = RECONNECT_DELAY
    /\ waited' = 0
    /\ lastFail' = fail

\* The finally block up to its await: writer.close(), then wait_closed.
Finally(how) ==
    /\ pc' = "closing"
    /\ pending' = how
    /\ conn' = IF conn = "broken" THEN "lost" ELSE "closing"

\* asyncio.open_connection returns the streams.
ConnectOk ==
    /\ pc = "connecting" /\ Runs
    /\ pc' = "reading"
    /\ conn' = "open"
    /\ UNCHANGED <<bridge, applied>>
    /\ UNCHANGED <<pending, cancel, delay, waited, lastFail, nRead, last,
                   putItem, queue, consumed, nextId>>

\* asyncio.open_connection raises ConnectionRefusedError.
ConnectRefused ==
    /\ pc = "connecting" /\ Runs
    /\ Sleep("refused")
    /\ UNCHANGED <<bridge, applied>>
    /\ UNCHANGED <<conn, pending, cancel, nRead, last, putItem, queue, consumed,
                   nextId>>

\* asyncio.open_connection raises another error (OSError, timeout).
ConnectError ==
    /\ pc = "connecting" /\ Runs
    /\ Sleep("error")
    /\ UNCHANGED <<bridge, applied>>
    /\ UNCHANGED <<conn, pending, cancel, nRead, last, putItem, queue, consumed,
                   nextId>>

Quiet == [exc |-> "", calls |-> <<>>, enc |-> "n/a", items |-> <<>>, built |-> FALSE]

\* What the call of the handler with text did (h).
Handled(text, h) ==
    [exc |-> h.exc, calls |-> <<text>>, enc |-> h.enc, items |-> h.items,
     built |-> h.built]

\* Lines 166-168 after the router decided r: the handler is awaited on "call".
Routed(r, uid, encOk) ==
    IF r.res = "raise" THEN [Quiet EXCEPT !.exc = r.exc]
    ELSE IF r.res = "return" THEN Quiet
    ELSE Handled(r.text, CotMessageHandler(r.text, uid, encOk))

\* The read loop without its except json.JSONDecodeError clause.
Process_NonJsonEscapes(line, uid, encOk) ==
    CASE line.kind = "badutf8" -> [Quiet EXCEPT !.exc = "UnicodeDecodeError"]
      [] line.kind = "blank" -> Quiet
      [] line.kind = "nonjson" -> [Quiet EXCEPT !.exc = "JSONDecodeError"]
      [] line.kind = "json" -> Routed(HandleSocketMessage(line.val), uid, encOk)

\* The body of the read loop for one received line, up to queue.put: decode and
\* strip, json.loads, handle_socket_message, the handler.  exc is the exception
\* that leaves the inner try ("" for none: JSONDecodeError is caught there).
Process(line, uid, encOk) ==
    CASE line.kind = "badutf8" -> [Quiet EXCEPT !.exc = "UnicodeDecodeError"]
      [] line.kind = "blank" -> Quiet
      [] line.kind = "nonjson" -> Quiet
      [] line.kind = "json" -> Routed(HandleSocketMessage(line.val), uid, encOk)

\* The loop body with the item put at the front of the queue.
Continue_PutFront(line, p) ==
    /\ last' = Last(line, p.calls, p.enc, p.items, p.exc)
    /\ nextId' = IF p.built THEN nextId + 1 ELSE nextId
    /\ IF p.exc # ""
       THEN /\ Finally("error")
            /\ lastFail' = "error"
            /\ waited' = 0
            /\ UNCHANGED <<queue, putItem>>
       ELSE /\ UNCHANGED <<conn, pending, lastFail, waited>>
            /\ IF p.items = <<>>
               THEN pc' = "reading" /\ UNCHANGED <<queue, putItem>>
               ELSE IF Len(queue) < MaxQueue
               THEN pc' = "reading" /\ queue' = p.items \o queue /\ UNCHANGED putItem
               ELSE pc' = "putting" /\ putItem' = p.items /\ UNCHANGED queue

\* The loop body with an event_id drawn once for all events (a default value
\* in place of the default_factory).
Continue_SharedId(line, p) ==
    /\ last' = Last(line, p.calls, p.enc, p.items, p.exc)
    /\ nextId' = nextId
    /\ IF p.exc # ""
       THEN /\ Finally("error")
            /\ lastFail' = "error"
            /\ waited' = 0
            /\ UNCHANGED <<queue, putItem>>
       ELSE /\ UNCHANGED <<conn, pending, lastFail, waited>>
            /\ IF p.items = <<>>
               THEN pc' = "reading" /\ UNCHANGED <<queue, putItem>>
               ELSE IF Len(queue) < MaxQueue
               THEN pc' = "reading" /\ queue' = queue \o p.items /\ UNCHANGED putItem
               ELSE pc' = "putting" /\ putItem' = p.items /\ UNCHANGED queue

\* The loop body after the line was processed with outcome p: the finally block
\* on an exception; otherwise queue.put of the item, which completes at once
\* when the queue has room, and the next readline.
Continue(line, p) ==
    /\ last' = Last(line, p.calls, p.enc, p.items, p.exc)
    /\ nextId' = IF p.built THEN nextId + 1 ELSE nextId
    /\ IF p.exc # ""
       THEN /\ Finally("error")
            /\ lastFail' = "error"
            /\ waited' = 0
            /\ UNCHANGED <<queue, putItem>>
       ELSE /\ UNCHANGED <<conn, pending, lastFail, waited>>
            /\ IF p.items = <<>>
               THEN pc' = "reading" /\ UNCHANGED <<queue, putItem>>
               ELSE IF Len(queue) < MaxQueue
               THEN pc' = "reading" /\ queue' = queue \o p.items /\ UNCHANGED putItem
               ELSE pc' = "putting" /\ putItem' = p.items /\ UNCHANGED queue

\* reader.readline returns a line and the loop body runs to its next await:
\* the next readline, a queue.put that has to wait, or the finally block.
ReadLine(line, encOk) ==
    /\ pc = "reading" /\ Runs
    /\ conn = "open"
    /\ nRead < MaxLines
    /\ nRead' = nRead + 1
    /\ Continue(line, Process(line, nextId, encOk))
    /\ UNCHANGED <<bridge, applied>>
    /\ UNCHANGED <<cancel, delay, consumed>>

\* The end of the stream leaving the read loop without the finally block.
ReadEOF_NoClose ==
    /\ pc = "reading" /\ Runs
    /\ conn = "open"
    /\ pc' = "connecting"
    /\ lastFail' = "eof"
    /\ waited' = 0
    /\ UNCHANGED <<bridge, applied>>
    /\ UNCHANGED <<conn, pending, cancel, delay, nRead, last, putItem, queue,
                   consumed, nextId>>

\* reader.readline returns b"": the server closed the stream; break.
ReadEOF ==
    /\ pc = "reading" /\ Runs
    /\ conn = "open"
    /\ Finally("none")
    /\ lastFail' = "eof"
    /\ waited' = 0
    /\ UNCHANGED <<bridge, applied>>
    /\ UNCHANGED <<cancel, delay, nRead, last, putItem, queue, consumed, nextId>>

\* reader.readline raises the error the connection was lost with.
ReadError ==
    /\ pc = "reading" /\ Runs
    /\ conn = "broken"
    /\ Finally("error")
    /\ lastFail' = "error"
    /\ waited' = 0
    /\ UNCHANGED <<bridge, applied>>
    /\ UNCHANGED <<cancel, delay, nRead, last, putItem, queue, consumed, nextId>>

\* The suspended queue.put completes once the queue has room.
PutDone ==
    /\ pc = "putting" /\ Runs
    /\ Len(queue) < MaxQueue
    /\ queue' = queue \o putItem
    /\ putItem' = <<>>
    /\ pc' = "reading"
    /\ UNCHANGED <<bridge, applied>>
    /\ UNCHANGED <<conn, pending, cancel, delay, waited, lastFail, nRead, last,
                   consumed, nextId>>

\* writer.wait_closed ends.  On a connection lost with an error it raises that
\* error, which replaces whatever the finally block was entered with and is
\* caught by except Exception.  Otherwise the finally block goes on: after the
\* break to the next pass of the outer loop, with an exception to its except
\* clause, with a CancelledError out of the function.
CloseDone ==
    /\ pc = "closing" /\ Runs
    /\ conn' = "none"
    /\ pending' = "none"
    /\ IF conn = "lost" \/ pending = "error"
       THEN Sleep("error")
       ELSE IF pending = "cancel"
       THEN pc' = "cancelled" /\ UNCHANGED <<delay, waited, lastFail>>
       ELSE pc' = "connecting" /\ UNCHANGED <<delay, waited, lastFail>>
    /\ UNCHANGED <<bridge, applied>>
    /\ UNCHANGED <<cancel, nRead, last, putItem, queue, consumed, nextId>>

\* One time unit of the running asyncio.sleep passes.
Tick ==
    /\ pc = "sleeping"
    /\ delay > 0
    /\ delay' = delay - 1
    /\ waited' = waited + 1
    /\ UNCHANGED <<bridge, applied>>
    /\ UNCHANGED <<pc, conn, pending, cancel, lastFail, nRead, last, putItem,
                   queue, consumed, nextId>>

\* asyncio.sleep returns: the next pass of the while loop calls open_connection.
Wake ==
    /\ pc = "sleeping" /\ Runs
    /\ delay = 0
    /\ pc' = "connecting"
    /\ UNCHANGED <<bridge, applied>>
    /\ UNCHANGED <<conn, pending, cancel, delay, waited, lastFail, nRead, last,
                   putItem, queue, consumed, nextId>>

\* The surrounding orchestration cancels the task while it is suspended.
Cancel ==
    /\ cancel = "no"
    /\ pc \in Suspended
    /\ cancel' = "requested"
    /\ UNCHANGED <<bridge, applied>>
    /\ UNCHANGED <<pc, conn, pending, delay, waited, lastFail, nRead, last,
                   putItem, queue, consumed, nextId>>

\* The CancelledError is thrown into the task at its await.  It is no Exception:
\* no except clause of the function catches it; inside the inner try the
\* finally block runs.
DeliverCancel ==
    /\ cancel = "requested"
    /\ cancel' = "delivered"
    /\ IF pc \in {"reading", "putting"}
       THEN Finally("cancel") /\ putItem' = <<>>
       ELSE /\ pc' = "cancelled"
            /\ conn' = "none"
            /\ UNCHANGED <<pending, putItem>>
    /\ UNCHANGED <<bridge, applied>>
    /\ UNCHANGED <<delay, waited, lastFail, nRead, last, queue, consumed, nextId>>

\* The connection is lost with an error (reset by the peer) while the task is
\* suspended.
ConnBreak ==
    /\ conn = "open"
    /\ pc \in {"reading", "putting"}
    /\ conn' = "broken"
    /\ UNCHANGED <<bridge, applied>>
    /\ UNCHANGED <<pc, pending, cancel, delay, waited, lastFail, nRead, last,
                   putItem, queue, consumed, nextId>>

\* The transmission worker takes the head of the queue.
Consume ==
    /\ queue # <<>>
    /\ consumed' = Append(consumed, Head(queue))
    /\ queue' = Tail(queue)
    /\ UNCHANGED <<bridge, applied>>
    /\ UNCHANGED <<pc, conn, pending, cancel, delay, waited, lastFail, nRead,
                   last, putItem, nextId>>

Receive1 == \E line \in Lines, encOk \in BOOLEAN : ReadLine(line, encOk)

Next ==
    \/ Start
    \/ ConnectOk
    \/ ConnectRefused
    \/ ConnectError
    \/ Receive1
    \/ ReadEOF
    \/ ReadError
    \/ PutDone
    \/ CloseDone
    \/ Tick
    \/ Wake
    \/ Cancel
    \/ DeliverCancel
    \/ ConnBreak
    \/ Consume

\* The client on its own: the subprocess runs, the client's task is inside the
\* async with of cleaning_up_proc, and whoever holds the task may cancel it
\* (Cancel).  BridgeSpec below has the orchestration of main instead.
Supervised ==
    /\ sup = "inside"
    /\ proc = "running"
    /\ worker = "running"
    /\ group = "running"
    /\ errors = {}
    /\ outcome = "none"
    /\ extCancel = FALSE

NotApplied == [fn |-> "none", arg |-> "", out |-> "", done |-> FALSE]

ClientInit == Init /\ Supervised /\ applied = NotApplied

Spec == ClientInit /\ [][Next]_vars

\* The retry behaviour does not depend on what the lines say beyond what their
\* handling does: skipped, an exception into the finally block, an item put.
\* RetrySpec is Spec with the lines drawn from one of each, under the fairness
\* of the event loop: a task that can run is run, time passes, and a requested
\* cancellation is thrown into the task.
RetryLines ==
    {Line("nonjson", JNull), Line("json", JList(<<>>)),
     Line("json", Notification(JStr("48.5 39.8 tank")))}

ReceiveRetry == \E line \in RetryLines, encOk \in BOOLEAN : ReadLine(line, encOk)

RetryNext ==
    \/ Start
    \/ ConnectOk
    \/ ConnectRefused
    \/ ConnectError
    \/ ReceiveRetry
    \/ ReadEOF
    \/ ReadError
    \/ PutDone
    \/ CloseDone
    \/ Tick
    \/ Wake
    \/ Cancel
    \/ DeliverCancel
    \/ ConnBreak
    \/ Consume

TaskStep ==
    \/ Start \/ ReceiveRetry \/ ReadEOF \/ ReadError \/ PutDone \/ CloseDone \/ Wake
    \/ DeliverCancel

RetrySpec == ClientInit /\ [][RetryNext]_vars /\ WF_vars(TaskStep) /\ WF_vars(Tick)

(***************************************************************************)
(* The process supervisor (cleaning_up_proc in                              *)
(* run_incomming_message_processing) and the orchestrator (the task group   *)
(* of main)                                                                 *)
(***************************************************************************)

\* main has created both tasks; neither has run yet.
Created ==
    /\ sup = "start"
    /\ proc = "none"
    /\ worker = "running"
    /\ group = "running"
    /\ errors = {}
    /\ outcome = "none"
    /\ extCancel = FALSE

SupEnded == {"cancelled", "failed"}

\* The first step of the task: run_incomming_message_processing enters the
\* async with, cleaning_up_proc awaits run(cmd), which awaits
\* asyncio.create_subprocess_shell.
SupStart ==
    /\ sup = "start" /\ Runs
    /\ sup' = "spawning"
    /\ UNCHANGED <<proc, worker, group, errors, outcome, extCancel>>
    /\ UNCHANGED <<client, applied>>

\* create_subprocess_shell returns the process: run returns it and
\* cleaning_up_proc yields to the body of the async with.
SpawnOk ==
    /\ sup = "spawning" /\ Runs
    /\ proc' = "running"
    /\ sup' = "inside"
    /\ UNCHANGED <<worker, group, errors, outcome, extCancel>>
    /\ UNCHANGED <<client, applied>>

\* A failure to start the subprocess that is logged and passed over.
SpawnFail_EntersBody ==
    /\ sup = "spawning" /\ Runs
    /\ sup' = "inside"
    /\ errors' = errors \cup {"spawn"}
    /\ UNCHANGED <<proc, worker, group, outcome, extCancel>>
    /\ UNCHANGED <<client, applied>>

\* create_subprocess_shell raises: the exception leaves run, cleaning_up_proc
\* (before its try) and the task; the body of the async with is never entered.
SpawnFail ==
    /\ sup = "spawning" /\ Runs
    /\ sup' = "failed"
    /\ errors' = errors \cup {"spawn"}
    /\ UNCHANGED <<proc, worker, group, outcome, extCancel>>
    /\ UNCHANGED <<client, applied>>

\* The CancelledError reaches the task before the body of the async with: at
\* its first step or in create_subprocess_shell, which gives up the process it
\* was creating.
SupCancelled ==
    /\ sup \in {"start", "spawning"}
    /\ cancel = "requested"
    /\ cancel' = "delivered"
    /\ sup' = "cancelled"
    /\ UNCHANGED <<proc, worker, group, errors, outcome, extCancel>>
    /\ UNCHANGED <<pc, conn, pending, delay, waited, lastFail, nRead, last,
                   putItem, queue, consumed, nextId, applied>>

\* The CancelledError reaches the task in the body of the async with, at the
\* await the client is suspended in.
ClientCancelled ==
    /\ sup = "inside"
    /\ pc \in Suspended
    /\ DeliverCancel

\* The finally of cleaning_up_proc without process.terminate() and
\* process.wait().
Teardown_NoTerminate ==
    /\ sup = "inside"
    /\ pc = "cancelled"
    /\ sup' = "cancelled"
    /\ UNCHANGED <<proc, errors>>
    /\ UNCHANGED <<worker, group, outcome, extCancel>>
    /\ UNCHANGED <<client, applied>>

\* The client was left (by the CancelledError: it neither returns nor raises
\* an Exception) and the finally of cleaning_up_proc runs: process.terminate(),
\* then await process.wait().  terminate() raises ProcessLookupError when the
\* process has ended on its own; that exception replaces the CancelledError
\* and ends the task.
Teardown ==
    /\ sup = "inside"
    /\ pc = "cancelled"
    /\ IF proc = "exited"
       THEN /\ sup' = "failed"
            /\ errors' = errors \cup {"teardown"}
            /\ UNCHANGED proc
       ELSE /\ sup' = "waiting"
            /\ proc' = "terminating"
            /\ UNCHANGED errors
    /\ UNCHANGED <<worker, group, outcome, extCancel>>
    /\ UNCHANGED <<client, applied>>

\* The subprocess ends on its own.
ProcExit ==
    /\ proc = "running"
    /\ proc' = "exited"
    /\ UNCHANGED <<sup, worker, group, errors, outcome, extCancel>>
    /\ UNCHANGED <<client, applied>>

\* The subprocess ends after terminate().
ProcTerminated ==
    /\ proc = "terminating"
    /\ proc' = "terminated"
    /\ UNCHANGED <<sup, worker, group, errors, outcome, extCancel>>
    /\ UNCHANGED <<client, applied>>

\* process.wait() returns; the finally block ends and the CancelledError goes on
\* out of the task.
WaitDone ==
    /\ sup = "waiting"
    /\ proc = "terminated"
    /\ sup' = "cancelled"
    /\ UNCHANGED <<proc, worker, group, errors, outcome, extCancel>>
    /\ UNCHANGED <<client, applied>>

\* clitool.run() raises.
WorkerFail ==
    /\ worker = "running"
    /\ worker' = "failed"
    /\ errors' = errors \cup {"worker"}
    /\ UNCHANGED <<sup, proc, group, outcome, extCancel>>
    /\ UNCHANGED <<client, applied>>

\* clitool.run() returns.
WorkerReturn ==
    /\ worker = "running"
    /\ worker' = "returned"
    /\ UNCHANGED <<sup, proc, group, errors, outcome, extCancel>>
    /\ UNCHANGED <<client, applied>>

\* main is cancelled from outside while it waits in the task group.
ExternalCancel ==
    /\ ~extCancel
    /\ group # "done"
    /\ extCancel' = TRUE
    /\ UNCHANGED <<sup, proc, worker, group, errors, outcome>>
    /\ UNCHANGED <<client, applied>>

\* The task group aborts, once: on the first failure of a task or on the
\* cancellation of main it cancels every task that is not done.  The worker
\* honours the cancellation.
Abort ==
    /\ group = "running"
    /\ errors # {} \/ extCancel
    /\ group' = "aborting"
    /\ cancel' = IF sup \notin SupEnded THEN "requested" ELSE cancel
    /\ worker' = IF worker = "running" THEN "cancelled" ELSE worker
    /\ UNCHANGED <<sup, proc, errors, outcome, extCancel>>
    /\ UNCHANGED <<pc, conn, pending, delay, waited, lastFail, nRead, last,
                   putItem, queue, consumed, nextId, applied>>

\* Both tasks are done: the async with of main ends, with the collected errors
\* if there are any, else with the cancellation of main, else normally.
GroupDone ==
    /\ group # "done"
    /\ (errors # {} \/ extCancel) => group = "aborting"
    /\ sup \in SupEnded
    /\ worker # "running"
    /\ group' = "done"
    /\ outcome' = IF errors # {} THEN "error"
                  ELSE IF extCancel THEN "cancelled" ELSE "returned"
    /\ UNCHANGED <<sup, proc, worker, errors, extCancel>>
    /\ UNCHANGED <<client, applied>>

\* The lines of BridgeSpec: one whose handling raises and one that puts an item.
BridgeLines ==
    {Line("json", JList(<<>>)), Line("json", Notification(JStr("48.5 39.8 tank")))}

ReceiveBridge == \E line \in BridgeLines : ReadLine(line, TRUE)

\* The worker takes items while it runs.
WorkerConsume == worker = "running" /\ Consume

\* The steps of the client inside the async with.
ClientStep ==
    \/ Start \/ ConnectOk \/ ConnectRefused \/ ConnectError \/ ReceiveBridge
    \/ ReadEOF \/ ReadError \/ PutDone \/ CloseDone \/ Wake

InsideStep == sup = "inside" /\ ClientStep

InsideTick == sup = "inside" /\ Tick

InsideBreak == sup = "inside" /\ ConnBreak

BridgeNext ==
    \/ SupStart
    \/ SpawnOk
    \/ SpawnFail
    \/ SupCancelled
    \/ InsideStep
    \/ InsideTick
    \/ InsideBreak
    \/ ClientCancelled
    \/ Teardown
    \/ ProcExit
    \/ ProcTerminated
    \/ WaitDone
    \/ WorkerFail
    \/ WorkerReturn
    \/ WorkerConsume
    \/ ExternalCancel
    \/ Abort
    \/ GroupDone

\* The event loop runs every task that can run, delivers a requested
\* cancellation, and lets time pass; a subprocess sent terminate() ends.
BridgeInit == Init /\ Created /\ applied = NotApplied

BridgeSpec ==
    /\ BridgeInit
    /\ [][BridgeNext]_vars
    /\ WF_vars(SupStart) /\ WF_vars(SpawnOk \/ SpawnFail) /\ WF_vars(SupCancelled)
    /\ WF_vars(InsideStep) /\ WF_vars(InsideTick) /\ WF_vars(ClientCancelled)
    /\ WF_vars(Teardown) /\ WF_vars(ProcTerminated) /\ WF_vars(WaitDone)
    /\ WF_vars(Abort) /\ WF_vars(GroupDone)

(***************************************************************************)
(* The marker event on its own: from_string and cot_type applied to inputs  *)
(* whose parts are known                                                    *)
(***************************************************************************)

\* A word that float() accepts, with its value in tenths.
Num(s, v) == [s |-> s, ok |-> TRUE, nan |-> FALSE, v |-> v]

NumberWords ==
    {Num("1", 10), Num("-90", -900), Num("48.5", 485), Num("+.5", 5), Num("1.", 10),
     Num("180.0", 1800), Num("91", 910), Num("-180.1", -1801), Num("0", 0),
     [s |-> "nan", ok |-> TRUE, nan |-> TRUE, v |-> 0]}

\* Words that float() rejects.
OtherWords ==
    {[s |-> w, ok |-> FALSE, nan |-> FALSE, v |-> 0] : w \in {"x", "1,5", "1.2.3", "-"}}

CoordinateWords == NumberWords \cup OtherWords

LabelTexts == {"tank", "Big  Tank", "a b\tc d", "TANK"}

\* A text of three words or more: the words a and b, the label l, and the
\* whitespace around them.
ThreeWords(pre, a, s1, b, s2, l, post) ==
    [text |-> pre \o a.s \o s1 \o b.s \o s2 \o l \o post,
     words |-> 3, lat |-> a, lon |-> b, label |-> l]

FewWords(text, n) ==
    [text |-> text, words |-> n, lat |-> Num("", 0), lon |-> Num("", 0), label |-> ""]

ParseInputs ==
    {ThreeWords(pre, a, s1, b, s2, l, post) :
        pre \in {"", " "}, a \in CoordinateWords, s1 \in {" ", "  ", "\t"},
        b \in CoordinateWords, s2 \in {" ", " \t "}, l \in LabelTexts,
        post \in {"", " "}}
    \cup {FewWords("", 0), FewWords("  \t", 0), FewWords("tank", 1),
          FewWords(" 1 ", 1), FewWords("1 2", 2), FewWords(" 48.5\t39.8  ", 2)}

\* Spellings of the keys of COT_TYPE_MAP, and labels that are no key.
Spelt(key, label) == [key |-> key, label |-> label]

Labels ==
    {Spelt("tank", l) : l \in {"tank", "Tank", "TANK", "tAnK"}}
    \cup {Spelt("apc", l) : l \in {"apc", "Apc", "APC"}}
    \cup {Spelt("infantry", l) : l \in {"infantry", "Infantry", "INFANTRY"}}
    \cup {Spelt("artillery", l) : l \in {"artillery", "ARTILLERY"}}
    \cup {Spelt("mlrs", l) : l \in {"mlrs", "MLRS", "Mlrs"}}
    \cup {Spelt("sam", l) : l \in {"sam", "SAM", "saM"}}
    \cup {Spelt("radar", l) : l \in {"radar", "Radar", "RADAR"}}
    \cup {Spelt("truck", l) : l \in {"truck", "TRUCK"}}
    \cup {Spelt("helicopter", l) : l \in {"helicopter", "Helicopter", "HELICOPTER"}}
    \cup {Spelt("drone", l) : l \in {"drone", "Drone", "DRONE"}}
    \cup {Spelt("", l) : l \in {"spaceship", "Big  Tank", "tanks", "tan", "G-U", "t"}}

AffiliationLetters == {Affiliation[m] : m \in DOMAIN Affiliation}

\* The function fn is about to be applied to arg.
Pending(fn, arg) == [fn |-> fn, arg |-> arg, out |-> "", done |-> FALSE]

ParseCalls == {Pending("from_string", input) : input \in ParseInputs}

TypeCalls ==
    {Pending("cot_type", [key |-> spelt.key, label |-> spelt.label,
                          affiliation |-> letter]) :
        spelt \in Labels, letter \in AffiliationLetters}

\* CoordinateMessage.from_string(text)
ApplyFromString ==
    /\ applied.fn = "from_string" /\ ~applied.done
    /\ applied' = [applied EXCEPT !.out = FromString(applied.arg.text),
                                  !.done = TRUE]
    /\ UNCHANGED <<client, bridge>>

\* CoordinateMessage(lat, lon, description, affiliation).cot_type
ApplyCotType ==
    /\ applied.fn = "cot_type" /\ ~applied.done
    /\ applied' = [applied EXCEPT
                       !.out = CotType([lat |-> Float(0), lon |-> Float(0),
                                        description |-> applied.arg.label,
                                        affiliation |-> applied.arg.affiliation]),
                       !.done = TRUE]
    /\ UNCHANGED <<client, bridge>>

EventInit == Init /\ Supervised /\ applied \in ParseCalls \cup TypeCalls

EventNext == ApplyFromString \/ ApplyCotType

EventSpec == EventInit /\ [][EventNext]_vars

(***************************************************************************)
(* What the claims speak of                                                 *)
(***************************************************************************)

IsObj(v) == v.t = "obj"

Has(v, k) == IsObj(v) /\ k \in DOMAIN v.f

\* v is a receive notification whose params.envelope holds a dataMessage with a
\* non-empty message string.
IsChatText(v) ==
    /\ Has(v, "method") /\ v.f["method"] = JStr("receive")
    /\ Has(v, "params") /\ Has(v.f["params"], "envelope")
    /\ Has(v.f["params"].f["envelope"], "dataMessage")
    /\ Has(v.f["params"].f["envelope"].f["dataMessage"], "message")
    /\ v.f["params"].f["envelope"].f["dataMessage"].f["message"].t = "str"
    /\ v.f["params"].f["envelope"].f["dataMessage"].f["message"].s # ""

IsTextNotification(line) == line.kind = "json" /\ IsChatText(line.val)

\* The message string of a text notification.
TextOf(line) == line.val.f["params"].f["envelope"].f["dataMessage"].f["message"]

\* The chat command grammar "<lat> <lon> <label>" on the words of a text.
Words(s) == Split(Strip(s), 2)

InRange(f, lo, hi) == ~f.nan /\ lo <= f.v /\ f.v <= hi

WordsValid(w) ==
    /\ Len(w) = 3
    /\ ParseFloat(w[1]).ok /\ ParseFloat(w[2]).ok
    /\ InRange(ParseFloat(w[1]), -900, 900)
    /\ InRange(ParseFloat(w[2]), -1800, 1800)
    /\ w[3] # ""

ValidText(s) == WordsValid(Words(s))

\* Everything that left the queue or is in it, oldest first.
OutputLog == consumed \o queue

\* The text the handler was called with for the last line (calls is not empty).
CalledWith == last.calls[1]

\* The last line was a text notification with a valid command and the encoder
\* did not return nothing for it.
ValidReceived ==
    /\ IsTextNotification(last.line)
    /\ ValidText(TextOf(last.line).s)
    /\ last.enc # "none"

\* item carries the coordinates of the words w and the type code of its label.
ItemOf(item, w) ==
    /\ item.lat = ParseFloat(w[1]).v
    /\ item.lon = ParseFloat(w[2]).v
    /\ item.type = "a-u-" \o CategoryCode(Lower(w[3]))

\* The item of the last line is the newest of the output, or the handler is
\* still suspended in queue.put with it.
LastItemAppended ==
    \/ pc = "putting" /\ putItem = last.items
    \/ OutputLog # <<>> /\ OutputLog[Len(OutputLog)] = last.items[1]

(***************************************************************************)
(* C1.  Every received receive notification whose envelope holds a          *)
(* dataMessage with a non-empty message string has the handler called       *)
(* exactly once, with exactly that text, and leaves the connection open;    *)
(* also without an account and a source field.                              *)
(***************************************************************************)
C1_TextForwarded ==
    IsTextNotification(last.line) =>
        /\ last.calls = <<TextOf(last.line)>>
        /\ last.exc = ""

(***************************************************************************)
(* C2.  The conversion handler never propagates an exception: whatever text *)
(* string it is called with, no exception leaves it.                        *)
(***************************************************************************)
C2_HandlerNeverRaises ==
    (last.calls # <<>> /\ CalledWith.t = "str") => last.exc = ""

\* The handler was called with a text that fails validation and returned.
C2_Witness ==
    /\ last.calls # <<>> /\ CalledWith.t = "str"
    /\ ~ValidText(CalledWith.s)
    /\ last.items = <<>>
    /\ pc = "reading"

(***************************************************************************)
(* C3.  A message that fails parsing or validation leaves the output queue  *)
(* unchanged: nothing is enqueued and no queue.put is begun for it.         *)
(***************************************************************************)
C3_InvalidNotEnqueued ==
    [][(nRead' = nRead + 1 /\ last'.calls # <<>> /\ last'.calls[1].t = "str"
          /\ ~ValidText(last'.calls[1].s))
       => (queue' = queue /\ putItem' = putItem /\ pc' # "putting")]_vars

\* A failing message was handled while the queue held an item.
C3_Witness ==
    /\ last.calls # <<>> /\ CalledWith.t = "str"
    /\ ~ValidText(CalledWith.s)
    /\ queue # <<>>

(***************************************************************************)
(* C4.  Each received receive notification carrying a valid                 *)
(* "<lat> <lon> <label>" text appends exactly one item to the output queue, *)
(* with the message's latitude and longitude and the type code "a-u-" +     *)
(* the category code of the label (unless the encoder returned nothing or   *)
(* the put was cancelled).                                                  *)
(***************************************************************************)
C4_ValidEnqueued ==
    (ValidReceived /\ cancel = "no") =>
        /\ Len(last.items) = 1
        /\ ItemOf(last.items[1], Words(TextOf(last.line).s))
        /\ LastItemAppended

(***************************************************************************)
(* C5.  Items are enqueued in the order their lines were received and the   *)
(* worker sees them in that order: the output (taken items, then queued     *)
(* items, then the item of a suspended put) is in the order the events were *)
(* built, across reconnects, and a line's item is appended behind all       *)
(* earlier ones.                                                            *)
(***************************************************************************)
Increasing(items) ==
    \A i, j \in 1..Len(items) : i < j => items[i].uid < items[j].uid

C5_ReceiptOrder ==
    /\ Increasing(OutputLog \o putItem)
    /\ \A i \in 1..Len(OutputLog \o putItem) : (OutputLog \o putItem)[i].uid < nextId
    /\ (last.items # <<>> /\ cancel = "no") => LastItemAppended

\* After a failure of the connection, the worker has taken an item and two
\* more are queued.
C5_Witness ==
    /\ Len(consumed) >= 1 /\ Len(queue) >= 2
    /\ lastFail # "none"

(***************************************************************************)
(* C6.  A received line that is not valid JSON produces no queue item, no   *)
(* handler call and no exception; the client stays connected on the same    *)
(* connection, waiting for the next line.                                   *)
(***************************************************************************)
C6_NonJsonSkipped ==
    [][(nRead' = nRead + 1 /\ last'.line.kind = "nonjson")
       => /\ last'.calls = <<>> /\ last'.items = <<>> /\ last'.exc = ""
          /\ queue' = queue /\ putItem' = putItem
          /\ pc' = "reading" /\ conn' = "open"
          /\ lastFail' = lastFail /\ delay' = delay]_vars

\* A line that is not JSON was skipped while the queue held an item, and the
\* client waits for the next line.
C6_Witness ==
    /\ last.line.kind = "nonjson"
    /\ pc = "reading" /\ conn = "open"
    /\ queue # <<>>

(***************************************************************************)
(* C7.  Every received line that parses as JSON but is not a chat           *)
(* notification carrying text is silently dropped: no handler call, no      *)
(* queue item, and no error for the client (the connection is not closed,   *)
(* no delay and no reconnect is triggered).                                 *)
(***************************************************************************)
C7_NonChatDropped ==
    (last.line.kind = "json" /\ ~IsTextNotification(last.line)) =>
        /\ last.calls = <<>>
        /\ last.items = <<>>
        /\ last.exc = ""

(***************************************************************************)
(* C8.  After a refused connection or an error the client sleeps the fixed  *)
(* delay and then attempts to connect again, without a retry limit: a       *)
(* failed attempt goes to the delay of RECONNECT_DELAY time units, the next *)
(* attempt starts only when all of it has passed, the function never        *)
(* returns and is left only by a cancellation, and from every delay a new   *)
(* attempt (or the cancellation) eventually follows.                        *)
(***************************************************************************)
C8_RetryState ==
    /\ (pc = "connecting" /\ lastFail \in {"refused", "error"})
          => waited = RECONNECT_DELAY
    /\ pc = "sleeping" => delay + waited = RECONNECT_DELAY
    /\ pc # "returned"
    /\ pc = "cancelled" => cancel = "delivered"

C8_FailedAttemptSleeps ==
    (pc = "connecting" /\ pc' \notin {"connecting", "reading"} /\ cancel' = cancel)
        => (pc' = "sleeping" /\ delay' = RECONNECT_DELAY)

C8_RetryForever ==
    /\ []C8_RetryState
    /\ [][C8_FailedAttemptSleeps]_vars
    /\ (pc = "sleeping") ~> (pc = "connecting" \/ pc = "cancelled")

\* A connection attempt after a refused one.
C8_Witness ==
    /\ pc = "connecting"
    /\ lastFail = "refused"
    /\ waited = RECONNECT_DELAY

(***************************************************************************)
(* C9.  Every transition from Connected to Disconnected, the end of the     *)
(* stream included, is followed by the fixed delay before the next          *)
(* connection attempt.                                                      *)
(***************************************************************************)
C9_DelayAfterDisconnect ==
    (pc = "connecting" /\ lastFail # "none") => waited = RECONNECT_DELAY

(***************************************************************************)
(* C10.  A cancellation thrown into the client at a suspension point closes *)
(* the open connection and leaves the function: afterwards the task is in   *)
(* the finally block or has left, no retry delay and no connection attempt  *)
(* is started, and once it has left no connection is open.                  *)
(***************************************************************************)
C10_CancelPropagates ==
    cancel = "delivered" =>
        /\ pc \in {"closing", "cancelled"}
        /\ pc = "cancelled" => conn = "none"

(***************************************************************************)
(* C11.  The process supervisor terminates the subprocess and awaits its    *)
(* exit on every way out of the scope around the client: the body of the    *)
(* async with is left only into process.terminate() followed by             *)
(* process.wait(), the wait ends only when the subprocess has ended, and     *)
(* once the supervised task or the bridge has ended a subprocess that was   *)
(* started runs no more.  In particular a cancellation while the subprocess *)
(* runs has it terminated before the bridge returns.                        *)
(***************************************************************************)
C11_State ==
    /\ sup \in SupEnded => proc \in {"none", "terminated", "exited"}
    /\ group = "done" => proc \in {"none", "terminated", "exited"}

C11_Step ==
    /\ (sup = "inside" /\ sup' # "inside" /\ proc = "running")
          => (proc' = "terminating" /\ sup' = "waiting")
    /\ (sup = "waiting" /\ sup' # "waiting") => proc = "terminated"

C11_SubprocessTornDown == []C11_State /\ [][C11_Step]_vars

\* The bridge was cancelled from outside while the subprocess ran, and has
\* ended with the subprocess terminated.
C11_Witness ==
    /\ group = "done" /\ outcome = "cancelled"
    /\ proc = "terminated"
    /\ pc = "cancelled"

(***************************************************************************)
(* C12.  Fail-fast group: when a unit (the supervised receiving side or the *)
(* transmission worker) raises, the orchestrator cancels the other unit and *)
(* the bridge ends with that error; when the orchestrator has returned,     *)
(* neither unit runs and the subprocess is torn down.                       *)
(***************************************************************************)
C12_State ==
    /\ group = "done" =>
          /\ sup \in SupEnded /\ worker # "running"
          /\ pc \in {"start", "cancelled"}
          /\ proc \in {"none", "terminated", "exited"}
          /\ errors # {} => outcome = "error"
    /\ (group = "aborting" /\ errors # {}) =>
          /\ worker # "running"
          /\ sup \notin SupEnded => cancel # "no"

\* The task group cancels a unit once only: a unit the cancellation has been
\* thrown into is on its way out, not back at work.
C12_CancelledUnitEnds ==
    (group = "aborting" /\ cancel = "delivered" /\ sup = "inside")
        => pc \in {"closing", "cancelled"}

C12_FailFast ==
    /\ []C12_State
    /\ []C12_CancelledUnitEnds
    /\ (errors # {}) ~> (group = "done" /\ outcome = "error")

(***************************************************************************)
(* C19.  The subprocess is started before the client makes its first        *)
(* connection attempt; if starting it fails, no connection attempt is ever  *)
(* made, and the failure ends the bridge, the transmission worker being     *)
(* cancelled.                                                               *)
(***************************************************************************)
C19_State ==
    /\ pc # "start" => proc # "none"
    /\ "spawn" \in errors => (pc = "start" /\ conn = "none" /\ proc = "none")
    /\ ("spawn" \in errors /\ group # "running") => worker # "running"

C19_SubprocessFirst ==
    /\ []C19_State
    /\ ("spawn" \in errors) ~> (group = "done" /\ outcome = "error")

\* Starting the subprocess failed and the bridge has ended, the worker
\* cancelled.
C19_Witness ==
    /\ "spawn" \in errors
    /\ group = "done" /\ outcome = "error"
    /\ worker = "cancelled"

(***************************************************************************)
(* C13.  Category lookup is case-insensitive and total: every spelling of a *)
(* key of the category table resolves to that key's code, a label that is   *)
(* no key resolves to "G-U", and the type code is always "a-" + the         *)
(* affiliation letter + "-" + the category code.                            *)
(***************************************************************************)
C13_TypeCode ==
    (applied.fn = "cot_type" /\ applied.done) =>
        applied.out = "a-" \o applied.arg.affiliation \o "-"
                      \o (IF applied.arg.key = "" THEN "G-U"
                          ELSE COT_TYPE_MAP[applied.arg.key])

\* The type code of a hostile "TANK".
C13_Witness ==
    /\ applied.fn = "cot_type" /\ applied.done
    /\ applied.arg.label = "TANK" /\ applied.arg.affiliation = "h"
    /\ applied.out = "a-h-G-U-C-F-M"

(***************************************************************************)
(* C14.  Parsing splits the text on whitespace into at most three words:    *)
(* with fewer than three it fails with the format error; with three, if one *)
(* of the first two is no number, it fails with the numeric error;          *)
(* otherwise it constructs the event with exactly the values of the first   *)
(* two words as latitude and longitude and the whole remainder, embedded    *)
(* whitespace kept, as label (construction then fails only on a latitude or *)
(* longitude out of range).                                                 *)
(***************************************************************************)
C14_Constructed(a, r) ==
    /\ r.built
    /\ r.msg.lat = [nan |-> a.lat.nan, v |-> a.lat.v]
    /\ r.msg.lon = [nan |-> a.lon.nan, v |-> a.lon.v]
    /\ r.msg.description = a.label
    /\ r.err \in {"", "Invalid latitude", "Invalid longitude"}
    /\ (InRange(a.lat, -900, 900) /\ InRange(a.lon, -1800, 1800)) => r.err = ""

C14_Parsed(a, r) ==
    /\ a.words < 3 => (r.err = "Expected 'lat lon label'" /\ ~r.built)
    /\ (a.words = 3 /\ ~(a.lat.ok /\ a.lon.ok))
          => (r.err = "Invalid coordinates" /\ ~r.built)
    /\ (a.words = 3 /\ a.lat.ok /\ a.lon.ok) => C14_Constructed(a, r)

C14_FromString ==
    (applied.fn = "from_string" /\ applied.done) => C14_Parsed(applied.arg, applied.out)

\* The statement without the proviso: whenever there are three words and the
\* first two are numbers, parsing yields the event.
C14_YieldsEvent ==
    (applied.fn = "from_string" /\ applied.done /\ applied.arg.words = 3
        /\ applied.arg.lat.ok /\ applied.arg.lon.ok)
    => (applied.out.err = "" /\ C14_Constructed(applied.arg, applied.out))

\* A text with whitespace around the words and inside the label was parsed.
C14_Witness ==
    /\ applied.fn = "from_string" /\ applied.done
    /\ applied.arg.text = " 48.5  -90 \t a b\tc d "
    /\ applied.out.err = ""
    /\ applied.out.msg.description = "a b\tc d"
    /\ applied.out.msg.lat.v = 485 /\ applied.out.msg.lon.v = -900

(***************************************************************************)
(* C15.  Every event gets an event_id of its own at construction: across    *)
(* any sequence of handled messages, repeated identical texts included, the *)
(* identifiers of the enqueued items are pairwise different and were drawn  *)
(* at a construction, and the identifier an item carries never changes      *)
(* (event_id values are fresh draws of uuid4).                              *)
(***************************************************************************)
C15_State ==
    /\ \A i, j \in 1..Len(OutputLog \o putItem) :
          i # j => (OutputLog \o putItem)[i].uid # (OutputLog \o putItem)[j].uid
    /\ \A i \in 1..Len(OutputLog \o putItem) :
          (OutputLog \o putItem)[i].uid \in 1..(nextId - 1)

C15_Step ==
    \A i \in 1..Len(OutputLog) :
        Len(OutputLog') >= i /\ OutputLog'[i] = OutputLog[i]

C15_UniqueEventIds == []C15_State /\ [][C15_Step]_vars

\* The same text was handled twice: two items that differ in nothing but their
\* event_id.
C15_Witness ==
    /\ Len(OutputLog) >= 2
    /\ OutputLog[1].uid # OutputLog[2].uid
    /\ [OutputLog[1] EXCEPT !.uid = 0] = [OutputLog[2] EXCEPT !.uid = 0]

(***************************************************************************)
(* C16.  A message-level failure (wrong number of words, coordinates that   *)
(* are no numbers or out of range, empty label) changes nothing but the     *)
(* log: the connection stays open, no reconnect and no delay is triggered,  *)
(* the queue is untouched, and a valid message the handler is given next on *)
(* the same connection is converted and enqueued.                           *)
(***************************************************************************)
MessageFailed(l) ==
    /\ l.calls # <<>> /\ l.calls[1].t = "str"
    /\ ~ValidText(l.calls[1].s)

C16_Frame ==
    (nRead' = nRead + 1 /\ MessageFailed(last'))
    => /\ pc = "reading" /\ pc' = "reading"
       /\ conn = "open" /\ conn' = "open"
       /\ UNCHANGED <<pending, cancel, delay, waited, lastFail, putItem, queue,
                      consumed>>

C16_NextConverted ==
    (MessageFailed(last) /\ nRead' = nRead + 1
        /\ last'.calls # <<>> /\ last'.calls[1].t = "str"
        /\ ValidText(last'.calls[1].s) /\ last'.enc = "bytes")
    => /\ Len(last'.items) = 1
       /\ ItemOf(last'.items[1], Words(last'.calls[1].s))
       /\ \/ queue' = queue \o last'.items
          \/ pc' = "putting" /\ putItem' = last'.items

C16_MessageFailureSkipped == [][C16_Frame /\ C16_NextConverted]_vars

\* The last of the lines was a message that failed; the client waits for the
\* next line on the connection it opened first.
C16_Witness ==
    /\ MessageFailed(last)
    /\ nRead = MaxLines
    /\ pc = "reading" /\ conn = "open"
    /\ lastFail = "none"

(***************************************************************************)
(* C17.  The envelope router yields nothing, the handler is not invoked and *)
(* nothing is raised whenever the method is not "receive", or               *)
(* params.envelope has no dataMessage key, or the message field of the      *)
(* dataMessage is absent or empty.                                          *)
(***************************************************************************)
MethodOf(v) == DictGet(v, "method", JNull)

ParamsOf(v) == DictGet(v, "params", EmptyObj)

EnvelopeOf(v) == DictGet(ParamsOf(v), "envelope", EmptyObj)

NotReceive(v) == IsObj(v) /\ MethodOf(v) # JStr("receive")

NoDataMessage(v) ==
    /\ IsObj(v) /\ MethodOf(v) = JStr("receive")
    /\ IsObj(ParamsOf(v)) /\ IsObj(EnvelopeOf(v))
    /\ ~Has(EnvelopeOf(v), "dataMessage")

NoText(v) ==
    /\ IsObj(v) /\ MethodOf(v) = JStr("receive")
    /\ IsObj(ParamsOf(v)) /\ Has(EnvelopeOf(v), "dataMessage")
    /\ IsObj(EnvelopeOf(v).f["dataMessage"])
    /\ DictGet(EnvelopeOf(v).f["dataMessage"], "message", JStr("")) = JStr("")

C17_RouterYieldsNothing ==
    (last.line.kind = "json"
        /\ (NotReceive(last.line.val) \/ NoDataMessage(last.line.val)
              \/ NoText(last.line.val)))
    => (last.calls = <<>> /\ last.items = <<>> /\ last.exc = "")

\* A dataMessage with an empty message and no account or source was dropped.
C17_Witness ==
    /\ last.line.kind = "json"
    /\ NoText(last.line.val) /\ ~Has(ParamsOf(last.line.val), "account")
    /\ Has(EnvelopeOf(last.line.val).f["dataMessage"], "message")
    /\ pc = "reading" /\ conn = "open"

(***************************************************************************)
(* C18.  When the encoder returns nothing for a parsed and validated event, *)
(* the handler enqueues nothing and raises nothing, and the client goes on  *)
(* with the next line on the same connection.                               *)
(***************************************************************************)
C18_EncoderNothingDropped ==
    [][(nRead' = nRead + 1 /\ last'.enc = "none")
       => /\ last'.items = <<>> /\ last'.exc = ""
          /\ queue' = queue /\ putItem' = putItem
          /\ pc' = "reading" /\ conn' = "open"
          /\ lastFail' = lastFail /\ delay' = delay]_vars

\* The encoder returned nothing for a valid text while an item was queued.
C18_Witness ==
    /\ last.enc = "none"
    /\ last.calls # <<>> /\ ValidText(CalledWith.s)
    /\ queue # <<>>
    /\ pc = "reading" /\ conn = "open"

(***************************************************************************)
(* C20.  The client holds at most one connection, and closes it on every    *)
(* way out of the Connected state (end of stream, I/O or decoding error, an *)
(* exception while routing or handling a line, cancellation) before it      *)
(* attempts a new connection or is left: no connection is held while it     *)
(* connects, sleeps or has ended, Connected is left only into               *)
(* writer.close(), and a connection is opened only when none is held.       *)
(***************************************************************************)
C20_State ==
    /\ pc \in {"start", "connecting", "sleeping", "cancelled", "returned"}
          => conn = "none"
    /\ conn \in {"open", "broken"} => pc \in {"reading", "putting"}

C20_Step ==
    /\ (pc \in {"reading", "putting"} /\ pc' \notin {"reading", "putting"})
          => (pc' = "closing" /\ conn' \in {"closing", "lost"})
    /\ (conn # "open" /\ conn' = "open") => conn = "none"

C20_NoConnectionLeaked == []C20_State /\ [][C20_Step]_vars

\* A new connection attempt after the end of a stream, the old connection
\* closed.
C20_Witness ==
    /\ pc = "connecting" /\ conn = "none"
    /\ lastFail = "eof"
    /\ nRead >= 1

(***************************************************************************)
(* C21.  If the subprocess has already ended on its own when the supervised *)
(* scope is left, the teardown (terminate, then wait) still completes       *)
(* without raising an error of its own: the supervised task ends with what  *)
(* the scope was left with (the cancellation), and the bridge with its      *)
(* original outcome, never with a failure of the teardown.                  *)
(***************************************************************************)
C21_TeardownKeepsOutcome ==
    /\ "teardown" \notin errors
    /\ (sup \in SupEnded /\ proc = "exited") => sup = "cancelled"
    /\ (group = "done" /\ errors \subseteq {"teardown"} /\ extCancel)
          => outcome = "cancelled"

====
